---- MODULE Spec2Model ----
(***************************************************************************)
(* LingoLens: the realtime session manager (GeminiLiveService) and the     *)
(* LiveSession component that drives it.                                   *)
(*                                                                         *)
(* The state is the service's private fields, the component's React state, *)
(* the remote sessions created by ai.live.connect, the callbacks queued on *)
(* the session promise, and the handlers suspended at an await.            *)
(* Texts are sequences of characters, so that concatenation and trim() are *)
(* computed as the code computes them.                                     *)
(***************************************************************************)
EXTENDS Integers, Sequences, FiniteSets, TLC

\* ------------------------------------------------------------------ bounds
MaxConnects == 2      \* connect() calls (component mounts) explored
MaxReplays  == 1      \* connect() calls where messages or the camera are varied
MaxAccLen   == 2      \* characters held by one transcript accumulator
MaxClock    == 2      \* output clock values explored per audio context
MaxUnits    == 2      \* playback units created or awaiting decode
MaxQueue    == 2      \* callbacks queued on one pending session promise
MaxFrames   == 1      \* video frames between canvas.toBlob and sendVideoFrame
MaxBlock    == 2      \* samples in one block given to createBlob
MaxNow      == 1      \* values of Date.now() explored after the first
MaxChunks   == 3      \* captured audio chunks that are told apart
MaxUpdates  == 4      \* level notifications since the component mounted

\* `data[i] * 32768` and `dataInt16[...] / 32768.0`
Scale == 32768

VARIABLES
    ui,              \* LiveSession: "unmounted" | "mounted" | "ending"
    status,          \* LiveSession useState<ConnectionStatus>
    cameraError,     \* LiveSession useState cameraError (TRUE = a message is set)
    camera,          \* initCamera position: "idle", "trying" (first applicable
                     \* attempt), "environment", "any" (later attempts), "ok", "failed"
    frames,          \* frames captured by the loop, sendVideoFrame not yet called
    nConn,           \* number of connect() calls so far
    sessionPromise,  \* 0 = null, else the session the promise belongs to
    ctx,             \* 0 = null, else the generation of both audio contexts
    ctxClosed,       \* generations of audio contexts whose close() has run
    sess,            \* remote sessions, by connect number
    thenQ,           \* callbacks queued by .then() on a pending session promise
    micWait,         \* sessions whose onopen's startAudioInput awaits getUserMedia
    procs,           \* context generations with a script processor attached
    accIn,           \* currentInputTranscription
    accOut,          \* currentOutputTranscription
    recvIn,          \* history: user partials received since accIn was last cleared
    recvOut,         \* history: model partials received since accOut was last cleared
    nextStartTime,   \* playback cursor
    sources,         \* in-flight playback units: [id, gen], gen = context it plays on
    nUnits,          \* playback units created so far
    pending,         \* handleMessage invocations awaiting decodeAudioData (FIFO)
    outClock,        \* outputAudioContext.currentTime
    lastEnd,         \* history: start + duration of the previously started unit
    intrClock,       \* history: clock at the last interruption, -1 once a unit started
    dateNow,         \* Date.now()
    ids,             \* history: ids of the items the component's list holds
    nChunks,         \* history: audio chunks numbered so far, in capture order
    audioLevel,      \* LiveSession useState audioLevel: num / 10^(n+1) after n updates
    fx               \* effects of the last step, as seen by the environment

vars == << ui, status, cameraError, camera, frames, nConn, sessionPromise, ctx,
           ctxClosed, sess, thenQ, micWait, procs, accIn, accOut, recvIn,
           recvOut, nextStartTime, sources, nUnits, pending, outClock, lastEnd,
           intrClock, dateNow, ids, nChunks, audioLevel, fx >>

\* every variable but the effects record
others == << ui, status, cameraError, camera, frames, nConn, sessionPromise, ctx,
             ctxClosed, sess, thenQ, micWait, procs, accIn, accOut, recvIn,
             recvOut, nextStartTime, sources, nUnits, pending, outClock, lastEnd,
             intrClock, dateNow, ids, nChunks, audioLevel >>

Conns == 1..MaxConnects

\* ------------------------------------------------------------------- texts
Chars == {"a", " "}

IsSpace(c) == c = " "

RECURSIVE TrimStart(_)
TrimStart(s) ==
    IF s = << >> THEN << >>
    ELSE IF IsSpace(Head(s)) THEN TrimStart(Tail(s)) ELSE s

RECURSIVE TrimEnd(_)
TrimEnd(s) ==
    IF s = << >> THEN << >>
    ELSE IF IsSpace(s[Len(s)]) THEN TrimEnd(SubSeq(s, 1, Len(s) - 1)) ELSE s

\* String.prototype.trim
Trim(s) == TrimEnd(TrimStart(s))

\* truthiness of a string: the empty string is falsy
Truthy(s) == s # << >>

Max(a, b) == IF a >= b THEN a ELSE b

\* ---------------------------------------------------------------- messages
\* A LiveServerMessage, by the fields handleMessage reads.  audio = 0 means
\* no modelTurn.parts[0].inlineData.data; otherwise it is the duration of
\* the buffer the data decodes to.
PartialTexts == { <<"a">>, <<" ">> }

\* durations of the decoded buffers, in units of the output clock
Durations == {1, 2}

Messages ==
    [ hasIn : BOOLEAN, inText : PartialTexts,
      hasOut : BOOLEAN, outText : PartialTexts,
      turnComplete : BOOLEAN, audio : {0} \cup Durations, interrupted : BOOLEAN ]

\* one representative per message shape: an absent field has a fixed filler
WellFormed(m) ==
    /\ (~m.hasIn => m.inText = <<"a">>)
    /\ (~m.hasOut => m.outText = <<"a">>)

\* -------------------------------------------------------- effects of a step
Fx0 ==
    [ op        |-> "none",   \* the operation that ran
      sid       |-> 0,        \* the session whose callback ran, if one did
      reported  |-> "none",   \* argument of onStatusChange, if called
      emitted   |-> << >>,    \* items passed to onTranscriptionUpdate
      expected  |-> << >>,    \* history: what the partials received called for
      carried   |-> << << >>, << >> >>,  \* partial texts of the message: user, model
      grew      |-> << << >>, << >> >>,  \* what it appended to accIn, accOut
      turnComplete |-> FALSE, \* the message carried serverContent.turnComplete
      discarded |-> << >>,    \* model text an interruption cleared
      levelReset |-> FALSE,   \* an ended listener called onAudioLevel(0)
      samples   |-> << >>,    \* block given to createBlob, as numerators of x = k/Scale
      blob      |-> << >>,    \* base64 text createBlob returned
      decoded   |-> << >>,    \* channel data decodeAudioData produced from it
      startAt   |-> -1,       \* argument of source.start, if called
      prevEnd   |-> -1,       \* history: lastEnd before the start
      intrAt    |-> -1,       \* history: intrClock before the start
      behind    |-> 0,        \* history: handlers already suspended when this one was
      teardown  |-> {},       \* teardown calls made
      delivered |-> << >>,    \* sends handed to a session's sendRealtimeInput
      dropped   |-> << >>,    \* sends that returned without reaching a session
      faults    |-> {} ]      \* rejections and exceptions nobody handles

\* micDenied is history: the getUserMedia call made for the session failed;
\* lastSeq is history: the number of the last audio chunk the session received
NoSession == [ promise |-> "none", opened |-> FALSE, closeCalled |-> FALSE,
               ended |-> FALSE, errored |-> FALSE, micDenied |-> FALSE,
               lastSeq |-> 0 ]

\* onStatusChange hook installed by LiveSession: setStatus(s).  A state
\* setter of an unmounted component does nothing.
SetStatus(s) == IF ui = "unmounted" THEN status ELSE s

\* the state after construction, but for the effects record
InitFields ==
    /\ ui = "unmounted"
    /\ status = "connecting"
    /\ cameraError = FALSE
    /\ camera = "idle"
    /\ frames = 0
    /\ nConn = 0
    /\ sessionPromise = 0
    /\ ctx = 0
    /\ ctxClosed = {}
    /\ sess = [c \in Conns |-> NoSession]
    /\ thenQ = [c \in Conns |-> << >>]
    /\ micWait = {}
    /\ procs = {}
    /\ accIn = << >>
    /\ accOut = << >>
    /\ recvIn = << >>
    /\ recvOut = << >>
    /\ nextStartTime = 0
    /\ sources = {}
    /\ nUnits = 0
    /\ pending = << >>
    /\ outClock = 0
    /\ lastEnd = -1
    /\ intrClock = -1
    /\ dateNow = 0
    /\ ids = {}
    /\ nChunks = 0
    /\ audioLevel = [num |-> 0, n |-> 0]

Init ==
    /\ InitFields
    /\ fx = Fx0

\* --------------------------------------------------------------- transport
\* A send as the environment sees it: what was sent, the state of the
\* session promise when it was issued, and whether the session had already
\* reported an error.
Send(kind) ==
    [ kind |-> kind,
      seq |-> IF kind = "audio" THEN nChunks + 1 ELSE 0,
      at |-> IF sessionPromise = 0 THEN "null" ELSE sess[sessionPromise].promise,
      afterErr |-> IF sessionPromise = 0 THEN FALSE ELSE sess[sessionPromise].errored ]

CloseCb == [ kind |-> "close", seq |-> 0, at |-> "pending", afterErr |-> FALSE ]

\* a session that still carries what sendRealtimeInput is given
Live(r) == ~r.closeCalled /\ ~r.ended

\* a send that skips the null check and goes out on the last session
IssueSendStale(kind, op) ==
    /\ fx' = [Fx0 EXCEPT !.op = op, !.delivered = << Send(kind) >>]
    /\ IF sessionPromise # 0 /\ sess[sessionPromise].promise = "pending"
       THEN /\ Len(thenQ[sessionPromise]) < MaxQueue
            /\ thenQ' = [thenQ EXCEPT ![sessionPromise] = Append(@, Send(kind))]
       ELSE UNCHANGED thenQ

\* `this.sessionPromise?.then(session => session.sendRealtimeInput(...))` and
\* sendVideoFrame: nothing when the promise is null, a queued callback while
\* it is pending, a call on the session once it is resolved, a callback that
\* never runs when it is rejected.
IssueSend(kind, op) ==
    LET sp == sessionPromise
        snd == Send(kind)
    IN  IF sp = 0
        THEN /\ fx' = [Fx0 EXCEPT !.op = op, !.dropped = << snd >>]
             /\ UNCHANGED thenQ
        ELSE IF sess[sp].promise = "pending"
        THEN /\ Len(thenQ[sp]) < MaxQueue
             /\ thenQ' = [thenQ EXCEPT ![sp] = Append(@, snd)]
             /\ fx' = [Fx0 EXCEPT !.op = op]
        ELSE IF sess[sp].promise = "resolved" /\ Live(sess[sp])
        THEN /\ fx' = [Fx0 EXCEPT !.op = op, !.delivered = << snd >>]
             /\ UNCHANGED thenQ
        ELSE /\ fx' = [Fx0 EXCEPT !.op = op, !.dropped = << snd >>,
                         !.faults = IF sess[sp].promise = "rejected"
                                    THEN {"unhandledRejection"} ELSE {}]
             /\ UNCHANGED thenQ

\* the number of the last audio chunk among the sends ds, else last
RECURSIVE LastSeq(_, _)
LastSeq(ds, last) ==
    IF ds = << >> THEN last
    ELSE LastSeq(Tail(ds), IF Head(ds).kind = "audio" THEN Head(ds).seq ELSE last)

\* queued callbacks run last-queued first
RECURSIVE RunQueueReversed(_, _, _, _)
RunQueueReversed(q, closed, delivered, dropped) ==
    IF q = << >>
    THEN [ closed |-> closed, delivered |-> delivered, dropped |-> dropped ]
    ELSE IF Head(q).kind = "close"
    THEN RunQueueReversed(Tail(q), TRUE, delivered, dropped)
    ELSE IF closed
    THEN RunQueueReversed(Tail(q), closed, delivered, Append(dropped, Head(q)))
    ELSE RunQueueReversed(Tail(q), closed, << Head(q) >> \o delivered, dropped)

\* The callbacks queued on a promise run in the order they were queued once
\* it resolves; a send queued behind a close reaches a closed session.
RECURSIVE RunQueue(_, _, _, _)
RunQueue(q, closed, delivered, dropped) ==
    IF q = << >>
    THEN [ closed |-> closed, delivered |-> delivered, dropped |-> dropped ]
    ELSE IF Head(q).kind = "close"
    THEN RunQueue(Tail(q), TRUE, delivered, dropped)
    ELSE IF closed
    THEN RunQueue(Tail(q), closed, delivered, Append(dropped, Head(q)))
    ELSE RunQueue(Tail(q), closed, Append(delivered, Head(q)), dropped)

\* ------------------------------------------------------------- LiveSession
\* Mounting the component: useState initial values, the startService
\* effect (hooks, then connect()) and the first step of initCamera.
\* connect() has no await: it runs to its end within the effect.  threw is
\* the case where ai.live.connect throws instead of returning a promise.
Connect(threw, limit) ==
    LET c == nConn + 1 IN
    /\ ui = "unmounted"
    /\ limit <= MaxConnects
    /\ nConn < limit
    /\ nConn' = c
    /\ ui' = "mounted"
    /\ cameraError' = FALSE
    /\ camera' = "trying"
    /\ accIn' = << >>
    /\ accOut' = << >>
    /\ recvIn' = << >>
    /\ recvOut' = << >>
    /\ ctx' = c
    /\ outClock' = 0
    /\ intrClock' = -1
    /\ IF threw
       THEN /\ status' = "error"
            /\ sess' = [sess EXCEPT ![c].promise = "threw"]
            /\ UNCHANGED sessionPromise
            /\ fx' = [Fx0 EXCEPT !.op = "connect", !.reported = "error"]
       ELSE /\ status' = "connecting"
            /\ sess' = [sess EXCEPT ![c].promise = "pending"]
            /\ sessionPromise' = c
            /\ fx' = [Fx0 EXCEPT !.op = "connect"]
    /\ ids' = {}
    /\ UNCHANGED << frames, ctxClosed, thenQ, micWait, procs, nextStartTime,
                    sources, nUnits, pending, lastEnd, dateNow, nChunks >>
    /\ audioLevel' = [num |-> 0, n |-> 0]

\* GeminiLiveService.disconnect
Disconnect(op) ==
    LET sp == sessionPromise
        closeNow == sp # 0 /\ sess[sp].promise = "resolved"
        closeLater == sp # 0 /\ sess[sp].promise = "pending"
        closeNever == sp # 0 /\ sess[sp].promise = "rejected"
        again == ctx # 0 /\ ctx \in ctxClosed
    IN
    /\ closeLater => Len(thenQ[sp]) < MaxQueue
    /\ sess' = IF closeNow THEN [sess EXCEPT ![sp].closeCalled = TRUE] ELSE sess
    /\ thenQ' = IF closeLater THEN [thenQ EXCEPT ![sp] = Append(@, CloseCb)] ELSE thenQ
    /\ ctxClosed' = IF ctx # 0 THEN ctxClosed \cup {ctx} ELSE ctxClosed
    /\ sessionPromise' = 0
    /\ status' = SetStatus("disconnected")
    /\ fx' = [Fx0 EXCEPT
                !.op = op,
                !.reported = "disconnected",
                !.teardown = (IF closeNow /\ Live(sess[sp]) THEN {"sessionClose"} ELSE {})
                             \cup (IF closeLater THEN {"sessionCloseQueued"} ELSE {})
                             \cup (IF ctx # 0 THEN {"contextClose"} ELSE {}),
                !.faults = (IF again THEN {"closeOfClosedContext"} ELSE {})
                           \cup (IF closeNever THEN {"unhandledRejection"} ELSE {})]

\* handleEndSession: disconnect(), then onEnd() makes App unmount the component
HandleEndSession ==
    /\ ui = "mounted"
    /\ Disconnect("disconnect")
    /\ ui' = "ending"
    /\ UNCHANGED << cameraError, camera, frames, nConn, ctx, micWait, procs,
                    accIn, accOut, recvIn, recvOut, nextStartTime, sources,
                    nUnits, pending, outClock, lastEnd, intrClock >>
    /\ UNCHANGED << dateNow, ids, nChunks, audioLevel >>

\* the effect cleanups run on unmount: disconnect() again, camera tracks stopped
Cleanup ==
    /\ ui = "ending"
    /\ Disconnect("cleanup")
    /\ ui' = "unmounted"
    /\ camera' = "idle"
    /\ UNCHANGED << cameraError, frames, nConn, ctx, micWait, procs,
                    accIn, accOut, recvIn, recvOut, nextStartTime, sources,
                    nUnits, pending, outClock, lastEnd, intrClock >>
    /\ UNCHANGED << dateNow, ids, nChunks, audioLevel >>

\* the text of the error panel: `cameraError || "Unable to connect to Gemini
\* Live API."`, rendered when `status === 'error' || cameraError`
DisplayedMessage(st, camErr) ==
    IF st = "error" \/ camErr
    THEN (IF camErr THEN "cameraError" ELSE "Unable to connect to Gemini Live API.")
    ELSE "none"

\* what the user can see of the state of the session
View(st, camErr) == << st, camErr, DisplayedMessage(st, camErr) >>

RECURSIVE Pow10(_)
Pow10(k) == IF k = 0 THEN 1 ELSE 10 * Pow10(k - 1)

\* samples passed to onAudioLevel, in tenths: the reset 0 of an ended
\* listener, the fixed 0.3 of an audio message, and block RMS values
\* between silence and full scale
LevelSamples == {0, 3, 5, 10}

\* the sample taken at ten times its weight
SmoothedUnscaled(prev, sample) ==
    [ num |-> 8 * prev.num + 20 * sample * Pow10(prev.n), n |-> prev.n + 1 ]

\* `prev => (prev * 0.8) + (level * 0.2)` on prev = num / 10^(n+1) and
\* level = sample / 10, over the common denominator 10^(n+2)
Smoothed(prev, sample) ==
    [ num |-> 8 * prev.num + 2 * sample * Pow10(prev.n), n |-> prev.n + 1 ]

\* the onAudioLevel hook installed by LiveSession.  The service calls it
\* from onaudioprocess, from the audio part of handleMessage and from an
\* ended listener; the level is read by the render only, so the hook is a
\* step of its own here, taking any of the samples those callers pass.
OnAudioLevel(sample) ==
    /\ ui # "unmounted"
    /\ audioLevel.n < MaxUpdates
    /\ audioLevel' = Smoothed(audioLevel, sample)
    /\ fx' = [Fx0 EXCEPT !.op = "audioLevel"]
    /\ UNCHANGED << ui, status, cameraError, camera, frames, nConn,
                    sessionPromise, ctx, ctxClosed, sess, thenQ, micWait, procs,
                    accIn, accOut, recvIn, recvOut, nextStartTime, sources,
                    nUnits, pending, outClock, lastEnd, intrClock, dateNow, ids,
                    nChunks >>

\* initCamera: an attempt other than the last has failed and the next one
\* is made.  With a cameraId the attempts are the selected camera, the
\* environment-facing camera, any video source; without, the last two.
CameraAttemptFailed(hasId) ==
    /\ \/ camera = "trying" /\ camera' = (IF hasId THEN "environment" ELSE "any")
       \/ camera = "environment" /\ hasId /\ camera' = "any"
    /\ fx' = [Fx0 EXCEPT !.op = "cameraRetry"]
    /\ UNCHANGED << ui, status, cameraError, frames, nConn, sessionPromise, ctx,
                    ctxClosed, sess, thenQ, micWait, procs, accIn, accOut,
                    recvIn, recvOut, nextStartTime, sources, nUnits, pending,
                    outClock, lastEnd, intrClock, dateNow, ids, nChunks,
                    audioLevel >>

\* initCamera: the last attempt, any video source, has failed too
CameraFail ==
    /\ camera = "any"
    /\ camera' = "failed"
    /\ cameraError' = (IF ui = "unmounted" THEN cameraError ELSE TRUE)
    /\ status' = SetStatus("error")
    /\ fx' = [Fx0 EXCEPT !.op = "cameraFail"]
    /\ UNCHANGED << ui, frames, nConn, sessionPromise, ctx, ctxClosed, sess,
                    thenQ, micWait, procs, accIn, accOut, recvIn, recvOut,
                    nextStartTime, sources, nUnits, pending, outClock, lastEnd,
                    intrClock >>
    /\ UNCHANGED << dateNow, ids, nChunks, audioLevel >>

\* initCamera: one of the attempts returned a stream
CameraOk ==
    /\ camera \in {"trying", "environment", "any"}
    /\ camera' = "ok"
    /\ fx' = [Fx0 EXCEPT !.op = "cameraOk"]
    /\ UNCHANGED << ui, status, cameraError, frames, nConn, sessionPromise, ctx,
                    ctxClosed, sess, thenQ, micWait, procs, accIn, accOut,
                    recvIn, recvOut, nextStartTime, sources, nUnits, pending,
                    outClock, lastEnd, intrClock >>
    /\ UNCHANGED << dateNow, ids, nChunks, audioLevel >>

\* one tick of the frame loop: the effect keeps the interval only while
\* status is connected and no camera error is set
FrameTick ==
    /\ ui # "unmounted"
    /\ status = "connected"
    /\ ~cameraError
    /\ camera = "ok"
    /\ frames < MaxFrames
    /\ frames' = frames + 1
    /\ fx' = [Fx0 EXCEPT !.op = "frameTick"]
    /\ UNCHANGED << ui, status, cameraError, camera, nConn, sessionPromise, ctx,
                    ctxClosed, sess, thenQ, micWait, procs, accIn, accOut,
                    recvIn, recvOut, nextStartTime, sources, nUnits, pending,
                    outClock, lastEnd, intrClock >>
    /\ UNCHANGED << dateNow, ids, nChunks, audioLevel >>

\* the toBlob callback of an earlier tick: geminiLiveService.sendVideoFrame
SendVideoFrame ==
    /\ frames > 0
    /\ frames' = frames - 1
    /\ IssueSend("video", "sendVideoFrame")
    /\ UNCHANGED << ui, status, cameraError, camera, nConn, sessionPromise, ctx,
                    ctxClosed, sess, micWait, procs, accIn, accOut, recvIn,
                    recvOut, nextStartTime, sources, nUnits, pending, outClock,
                    lastEnd, intrClock >>
    /\ UNCHANGED << dateNow, ids, nChunks, audioLevel >>

\* ------------------------------------------------------ capture pipeline
\* startAudioInput, called by the onopen of session c, up to its await:
\* returns at once without both an input context and a session promise,
\* else suspends at getUserMedia
StartAudioInput(c) ==
    IF ctx # 0 /\ sessionPromise # 0 THEN micWait \cup {c} ELSE micWait

\* startAudioInput after getUserMedia resolved: the script processor is
\* attached to the input context the service holds now.  attach = FALSE is
\* the build where createMediaStreamSource on a closed context throws.
MicGranted(c, attach) ==
    /\ c \in micWait
    /\ micWait' = micWait \ {c}
    /\ (~attach => ctx \in ctxClosed)
    /\ procs' = IF attach THEN procs \cup {ctx} ELSE procs
    /\ status' = IF attach THEN status ELSE SetStatus("error")
    /\ fx' = [Fx0 EXCEPT !.op = "micGranted", !.sid = c,
                         !.reported = IF attach THEN "none" ELSE "error"]
    /\ UNCHANGED << ui, cameraError, camera, frames, nConn, sessionPromise, ctx,
                    ctxClosed, sess, thenQ, accIn, accOut, recvIn, recvOut,
                    nextStartTime, sources, nUnits, pending, outClock, lastEnd,
                    intrClock >>
    /\ UNCHANGED << dateNow, ids, nChunks, audioLevel >>

\* startAudioInput: getUserMedia rejected
MicDenied(c) ==
    /\ c \in micWait
    /\ micWait' = micWait \ {c}
    /\ sess' = [sess EXCEPT ![c].micDenied = TRUE]
    /\ status' = SetStatus("error")
    /\ fx' = [Fx0 EXCEPT !.op = "micDenied", !.sid = c, !.reported = "error"]
    /\ UNCHANGED << ui, cameraError, camera, frames, nConn, sessionPromise, ctx,
                    ctxClosed, thenQ, procs, accIn, accOut, recvIn,
                    recvOut, nextStartTime, sources, nUnits, pending, outClock,
                    lastEnd, intrClock >>
    /\ UNCHANGED << dateNow, ids, nChunks, audioLevel >>

\* scriptProcessor.onaudioprocess of the pipeline on context g; a closed
\* context processes no audio
AudioProcess(g, counted) ==
    /\ g \in procs
    /\ g \notin ctxClosed
    /\ counted => nChunks < MaxChunks
    /\ nChunks' = IF counted THEN nChunks + 1 ELSE nChunks
    /\ IssueSend("audio", "audioProcess")
    /\ sess' = IF fx'.delivered = << >> THEN sess
               ELSE [sess EXCEPT ![sessionPromise].lastSeq = LastSeq(fx'.delivered, @)]
    /\ UNCHANGED << ui, status, cameraError, camera, frames, nConn,
                    sessionPromise, ctx, ctxClosed, micWait, procs, accIn,
                    accOut, recvIn, recvOut, nextStartTime, sources, nUnits,
                    pending, outClock, lastEnd, intrClock, dateNow, ids,
                    audioLevel >>

\* ---------------------------------------------------- session callbacks
Attached(c) == sess[c].promise \in {"pending", "resolved"} /\ ~sess[c].ended

\* the promise returned by ai.live.connect resolves: the queued callbacks run
PromiseResolve(c) ==
    LET r == RunQueue(thenQ[c], ~Live(sess[c]), << >>, << >>) IN
    /\ sess[c].promise = "pending"
    /\ sess' = [sess EXCEPT ![c].promise = "resolved",
                            ![c].closeCalled = \E i \in 1..Len(thenQ[c]) :
                                                  thenQ[c][i].kind = "close",
                            ![c].lastSeq = LastSeq(r.delivered, @)]
    /\ thenQ' = [thenQ EXCEPT ![c] = << >>]
    /\ fx' = [Fx0 EXCEPT !.op = "resolve", !.sid = c, !.delivered = r.delivered,
                         !.dropped = r.dropped,
                         !.teardown = IF sess'[c].closeCalled /\ ~sess[c].ended
                                      THEN {"sessionClose"} ELSE {}]
    /\ UNCHANGED << ui, status, cameraError, camera, frames, nConn,
                    sessionPromise, ctx, ctxClosed, micWait, procs, accIn,
                    accOut, recvIn, recvOut, nextStartTime, sources, nUnits,
                    pending, outClock, lastEnd, intrClock >>
    /\ UNCHANGED << dateNow, ids, nChunks, audioLevel >>

\* the promise rejects: connect() did not await it, nothing observes it
PromiseReject(c) ==
    /\ sess[c].promise = "pending"
    /\ ~sess[c].opened
    /\ sess' = [sess EXCEPT ![c].promise = "rejected"]
    /\ thenQ' = [thenQ EXCEPT ![c] = << >>]
    /\ fx' = [Fx0 EXCEPT !.op = "reject", !.sid = c,
                         !.dropped = SelectSeq(thenQ[c], LAMBDA q : q.kind # "close"),
                         !.faults = {"unhandledRejection"}]
    /\ UNCHANGED << ui, status, cameraError, camera, frames, nConn,
                    sessionPromise, ctx, ctxClosed, micWait, procs, accIn,
                    accOut, recvIn, recvOut, nextStartTime, sources, nUnits,
                    pending, outClock, lastEnd, intrClock >>
    /\ UNCHANGED << dateNow, ids, nChunks, audioLevel >>

\* callbacks.onopen
OnOpen(c) ==
    /\ Attached(c)
    /\ ~sess[c].opened
    /\ sess' = [sess EXCEPT ![c].opened = TRUE]
    /\ status' = SetStatus("connected")
    /\ micWait' = StartAudioInput(c)
    /\ fx' = [Fx0 EXCEPT !.op = "open", !.sid = c, !.reported = "connected"]
    /\ UNCHANGED << ui, cameraError, camera, frames, nConn, sessionPromise, ctx,
                    ctxClosed, thenQ, procs, accIn, accOut, recvIn, recvOut,
                    nextStartTime, sources, nUnits, pending, outClock, lastEnd,
                    intrClock >>
    /\ UNCHANGED << dateNow, ids, nChunks, audioLevel >>

\* callbacks.onclose
OnClose(c) ==
    /\ Attached(c)
    /\ sess' = [sess EXCEPT ![c].ended = TRUE]
    /\ status' = SetStatus("disconnected")
    /\ fx' = [Fx0 EXCEPT !.op = "close", !.sid = c, !.reported = "disconnected"]
    /\ UNCHANGED << ui, cameraError, camera, frames, nConn, sessionPromise, ctx,
                    ctxClosed, thenQ, micWait, procs, accIn, accOut, recvIn,
                    recvOut, nextStartTime, sources, nUnits, pending, outClock,
                    lastEnd, intrClock >>
    /\ UNCHANGED << dateNow, ids, nChunks, audioLevel >>

\* callbacks.onerror
OnError(c) ==
    /\ Attached(c)
    /\ sess' = [sess EXCEPT ![c].errored = TRUE]
    /\ status' = SetStatus("error")
    /\ fx' = [Fx0 EXCEPT !.op = "error", !.sid = c, !.reported = "error"]
    /\ UNCHANGED << ui, cameraError, camera, frames, nConn, sessionPromise, ctx,
                    ctxClosed, thenQ, micWait, procs, accIn, accOut, recvIn,
                    recvOut, nextStartTime, sources, nUnits, pending, outClock,
                    lastEnd, intrClock >>
    /\ UNCHANGED << dateNow, ids, nChunks, audioLevel >>

\* ------------------------------------------------------------ handleMessage
\* 1. transcription: `if (outputTranscription) ... else if (inputTranscription)`
AppendOut(m, out) == IF m.hasOut THEN out \o m.outText ELSE out

AppendIn(m, in) == IF m.hasOut THEN in ELSE IF m.hasIn THEN in \o m.inText ELSE in

\* the text by which an accumulator grew
Grown(before, after) == SubSeq(after, Len(before) + 1, Len(after))

\* the items a turn-complete emits for the accumulators in, out, user first
\* `Date.now().toString() + '-user'`, `Date.now().toString() + '-ai'`
ItemId(t, speaker) == << t, IF speaker = "user" THEN "-user" ELSE "-ai" >>

FlushItems(m, in, out) ==
    (IF m.turnComplete /\ Truthy(Trim(in))
     THEN << [id |-> ItemId(dateNow, "user"), speaker |-> "user", text |-> in] >>
     ELSE << >>)
    \o (IF m.turnComplete /\ Truthy(Trim(out))
        THEN << [id |-> ItemId(dateNow, "model"), speaker |-> "model", text |-> out] >>
        ELSE << >>)

\* `if (this.currentXTranscription.trim()) { ...; this.currentXTranscription = ''; }`
AfterFlush(m, acc) == IF m.turnComplete /\ Truthy(Trim(acc)) THEN << >> ELSE acc

\* an interruption that keeps the model text
AfterInterruptKept(out) == out

\* `this.currentOutputTranscription = ''` of the interruption part
AfterInterrupt(out) == << >>

\* `this.nextStartTime = Math.max(this.nextStartTime, currentTime)`
ClampCursor(cursor, now) == Max(cursor, now)

\* the cursor left where it was after a start
AdvanceStuck(cursor, dur) == cursor

\* `this.nextStartTime += audioBuffer.duration`
Advance(cursor, dur) == cursor + dur

\* `base64EncodedAudioString && this.outputAudioContext && this.outputNode`
HasAudio(m) == m.audio > 0 /\ ctx # 0

\* handleMessage from its start to its end, or to the decode await when the
\* message carries audio
HandleMessage(c, m) ==
    LET in1   == AppendIn(m, accIn)
        out1  == AppendOut(m, accOut)
        rin1  == IF m.hasIn THEN recvIn \o m.inText ELSE recvIn
        rout1 == IF m.hasOut THEN recvOut \o m.outText ELSE recvOut
        in2   == AfterFlush(m, in1)
        out2  == AfterFlush(m, out1)
        stop  == m.interrupted /\ ~HasAudio(m)
    IN
    /\ Attached(c)
    /\ sess[c].opened
    /\ Len(in1) <= MaxAccLen /\ Len(out1) <= MaxAccLen
    /\ Len(rin1) <= MaxAccLen /\ Len(rout1) <= MaxAccLen
    /\ accIn' = in2
    /\ accOut' = IF stop THEN AfterInterrupt(out2) ELSE out2
    /\ recvIn' = AfterFlush(m, rin1)
    /\ recvOut' = IF stop THEN << >> ELSE AfterFlush(m, rout1)
    /\ IF HasAudio(m)
       THEN /\ nUnits + Len(pending) < MaxUnits
            /\ nextStartTime' = ClampCursor(nextStartTime, outClock)
            /\ pending' = Append(pending, [dur |-> m.audio, interrupted |-> m.interrupted,
                                         behind |-> Len(pending)])
            /\ UNCHANGED << sources, lastEnd, intrClock >>
       ELSE /\ nextStartTime' = IF stop THEN 0 ELSE nextStartTime
            /\ sources' = IF stop THEN {} ELSE sources
            /\ lastEnd' = IF stop THEN -1 ELSE lastEnd
            /\ intrClock' = IF stop THEN outClock ELSE intrClock
            /\ UNCHANGED pending
    /\ fx' = [Fx0 EXCEPT !.op = IF stop THEN "interrupt" ELSE "message",
                         !.sid = c,
                         !.carried = << IF m.hasIn THEN m.inText ELSE << >>,
                                        IF m.hasOut THEN m.outText ELSE << >> >>,
                         !.grew = << Grown(accIn, in1), Grown(accOut, out1) >>,
                         !.turnComplete = m.turnComplete,
                         !.discarded = IF stop THEN out2 ELSE << >>,
                         !.emitted = FlushItems(m, in1, out1),
                         !.expected = FlushItems(m, rin1, rout1)]
    /\ ids' = IF ui = "unmounted" THEN ids
              ELSE ids \cup { FlushItems(m, in1, out1)[i].id :
                                i \in DOMAIN FlushItems(m, in1, out1) }
    /\ UNCHANGED << ui, status, cameraError, camera, frames, nConn,
                    sessionPromise, ctx, ctxClosed, sess, thenQ, micWait, procs,
                    nUnits, outClock, dateNow, nChunks, audioLevel >>

\* handleMessage resumed after `await this.decodeAudioData(...)`: the unit is
\* started at the cursor, then the interruption part of the same message runs
DecodeDone ==
    LET p == Head(pending)
        u == nUnits + 1
    IN
    /\ pending # << >>
    /\ pending' = Tail(pending)
    /\ nUnits' = u
    /\ nextStartTime' = IF p.interrupted THEN 0 ELSE Advance(nextStartTime, p.dur)
    /\ sources' = IF p.interrupted THEN {} ELSE sources \cup {[id |-> u, gen |-> ctx]}
    /\ accOut' = IF p.interrupted THEN AfterInterrupt(accOut) ELSE accOut
    /\ recvOut' = IF p.interrupted THEN << >> ELSE recvOut
    /\ lastEnd' = IF p.interrupted THEN -1 ELSE nextStartTime + p.dur
    /\ intrClock' = IF p.interrupted THEN outClock ELSE -1
    /\ fx' = [Fx0 EXCEPT !.op = IF p.interrupted THEN "interrupt" ELSE "start",
                         !.discarded = IF p.interrupted THEN accOut ELSE << >>,
                         !.startAt = nextStartTime,
                         !.prevEnd = lastEnd,
                         !.intrAt = intrClock,
                         !.behind = p.behind]
    /\ UNCHANGED << ui, status, cameraError, camera, frames, nConn,
                    sessionPromise, ctx, ctxClosed, sess, thenQ, micWait, procs,
                    accIn, recvIn, outClock >>
    /\ UNCHANGED << dateNow, ids, nChunks, audioLevel >>

\* messages that carry none of the fields handleMessage looks for
AnomalyShapes ==
    { "noServerContent", "emptyServerContent", "modelTurnNoParts",
      "modelTurnEmptyParts", "modelTurnTextPart" }

\* `message.serverContent?.modelTurn?.parts[0]?.inlineData?.data`: the chain
\* guards serverContent, modelTurn, the part and inlineData, not parts
ReadInlineData(shape) ==
    IF shape = "modelTurnNoParts" THEN "TypeError" ELSE "undefined"

\* handleMessage on such a message: nothing to append, flush, play or
\* interrupt; a throw inside the async handler rejects the promise that
\* onmessage returns, which nobody handles
HandleAnomaly(c, shape) ==
    /\ Attached(c)
    /\ sess[c].opened
    /\ fx' = [Fx0 EXCEPT !.op = "anomaly", !.sid = c,
                         !.faults = IF ReadInlineData(shape) = "TypeError"
                                    THEN {"unhandledRejection"} ELSE {}]
    /\ UNCHANGED others

InFlight(u) == \E s \in sources : s.id = u

\* the 'ended' listener of a unit that played to its end; a closed context
\* renders nothing, so a unit on it never reaches its end
Ended(u) ==
    /\ \E s \in sources : s.id = u /\ s.gen \notin ctxClosed
    /\ sources' = { s \in sources : s.id # u }
    /\ fx' = [Fx0 EXCEPT !.op = "ended", !.levelReset = TRUE]
    /\ UNCHANGED << ui, status, cameraError, camera, frames, nConn,
                    sessionPromise, ctx, ctxClosed, sess, thenQ, micWait, procs,
                    accIn, accOut, recvIn, recvOut, nextStartTime, nUnits,
                    pending, outClock, lastEnd, intrClock >>
    /\ UNCHANGED << dateNow, ids, nChunks, audioLevel >>

\* the wall clock moves on by a millisecond
WallTick ==
    /\ dateNow < MaxNow
    /\ dateNow' = dateNow + 1
    /\ fx' = [Fx0 EXCEPT !.op = "wallTick"]
    /\ UNCHANGED << ui, status, cameraError, camera, frames, nConn,
                    sessionPromise, ctx, ctxClosed, sess, thenQ, micWait, procs,
                    accIn, accOut, recvIn, recvOut, nextStartTime, sources,
                    nUnits, pending, outClock, lastEnd, intrClock, ids, nChunks,
                    audioLevel >>

\* outputAudioContext.currentTime advances while the context runs
Tick ==
    /\ ctx # 0
    /\ ctx \notin ctxClosed
    /\ outClock < MaxClock
    /\ outClock' = outClock + 1
    /\ fx' = [Fx0 EXCEPT !.op = "tick"]
    /\ UNCHANGED << ui, status, cameraError, camera, frames, nConn,
                    sessionPromise, ctx, ctxClosed, sess, thenQ, micWait, procs,
                    accIn, accOut, recvIn, recvOut, nextStartTime, sources,
                    nUnits, pending, lastEnd, intrClock >>
    /\ UNCHANGED << dateNow, ids, nChunks, audioLevel >>

\* ------------------------------------------------------------------ codec
\* Samples are numerators k of x = k/Scale, exact in a Float32Array for the
\* values of the grid, so that `data[i] * 32768` is k.

\* storing a number into an Int16Array element: ToInt16, modulo 2^16
ToInt16(k) == ((k + Scale) % (2 * Scale)) - Scale

\* `new Uint8Array(int16.buffer)`: two bytes per element, low byte first
RECURSIVE Int16Bytes(_)
Int16Bytes(ks) ==
    IF ks = << >> THEN << >>
    ELSE LET u == Head(ks) % (2 * Scale)
         IN  << u % 256, u \div 256 >> \o Int16Bytes(Tail(ks))

\* `new Int16Array(data.buffer)`: the reverse view
RECURSIVE BytesInt16(_)
BytesInt16(bs) ==
    IF Len(bs) < 2 THEN << >>
    ELSE LET u == bs[1] + 256 * bs[2]
         IN  << IF u >= Scale THEN u - 2 * Scale ELSE u >>
             \o BytesInt16(SubSeq(bs, 3, Len(bs)))

\* the '=' of base64, next to the sextets 0..63
Pad == 64

\* encode: String.fromCharCode of every byte, then btoa
RECURSIVE encode(_)
encode(bs) ==
    IF bs = << >> THEN << >>
    ELSE IF Len(bs) = 1
    THEN << bs[1] \div 4, (bs[1] % 4) * 16, Pad, Pad >>
    ELSE IF Len(bs) = 2
    THEN << bs[1] \div 4, (bs[1] % 4) * 16 + bs[2] \div 16, (bs[2] % 16) * 4, Pad >>
    ELSE << bs[1] \div 4, (bs[1] % 4) * 16 + bs[2] \div 16,
            (bs[2] % 16) * 4 + bs[3] \div 64, bs[3] % 64 >>
         \o encode(SubSeq(bs, 4, Len(bs)))

\* decode: atob, then charCodeAt of every character
RECURSIVE decode(_)
decode(cs) ==
    IF Len(cs) < 4 THEN << >>
    ELSE LET b1 == cs[1] * 4 + cs[2] \div 16
             b2 == (cs[2] % 16) * 16 + cs[3] \div 4
             b3 == (cs[3] % 4) * 64 + cs[4]
         IN  (IF cs[3] = Pad THEN << b1 >>
              ELSE IF cs[4] = Pad THEN << b1, b2 >>
              ELSE << b1, b2, b3 >>)
             \o decode(SubSeq(cs, 5, Len(cs)))

\* createBlob(data).data
createBlob(data) ==
    encode(Int16Bytes([i \in DOMAIN data |-> ToInt16(data[i])]))

\* decodeAudioData(decode(base64), ctx, 24000, 1): one channel, int16 / 32768.0
decodeAudioData(bs) == BytesInt16(bs)

\* sample values on the grid: both ends, the byte boundaries, around zero
GridSamples ==
    { -Scale, 1 - Scale, -257, -256, -1, 0, 1, 255, 256, Scale - 1, Scale }

RECURSIVE Blocks(_)
Blocks(n) ==
    IF n = 0 THEN { << >> }
    ELSE LET shorter == Blocks(n - 1)
         IN  shorter \cup { Append(b, k) : b \in { c \in shorter : Len(c) = n - 1 },
                                           k \in GridSamples }

\* a block of samples is about to be given to createBlob
InitCodec ==
    /\ InitFields
    /\ \E b \in Blocks(MaxBlock) : fx = [Fx0 EXCEPT !.samples = b]

CreateBlob ==
    /\ fx.op = "none"
    /\ fx' = [fx EXCEPT !.op = "createBlob", !.blob = createBlob(fx.samples)]
    /\ UNCHANGED others

\* the blob comes back as the inline data of a message
DecodeAudioData ==
    /\ fx.op = "createBlob"
    /\ fx' = [fx EXCEPT !.op = "decodeAudioData",
                         !.decoded = decodeAudioData(decode(fx.blob))]
    /\ UNCHANGED others

NextCodec ==
    \/ CreateBlob
    \/ DecodeAudioData

SpecCodec == InitCodec /\ [][NextCodec]_vars

\* ------------------------------------------------------ specifications
\* The message shapes each specification draws from.  Transcription and
\* playback share no field of the service except through an interruption,
\* which both sets carry.
TranscriptMessages == { m \in Messages : WellFormed(m) /\ m.audio = 0 }

PlaybackMessages ==
    { m \in Messages : WellFormed(m) /\ ~m.hasIn /\ ~m.hasOut /\ ~m.turnComplete }

SessionMessages ==
    { m \in TranscriptMessages :
        m.hasOut /\ ~m.hasIn /\ m.outText = <<"a">> /\ ~m.turnComplete /\ ~m.interrupted }

\* the session and the capture pipeline: connecting, capturing, sending
\* audio, tearing down
Next ==
    \/ \E threw \in BOOLEAN : Connect(threw, MaxConnects)
    \/ HandleEndSession
    \/ Cleanup
    \/ \E c \in Conns : \E attach \in BOOLEAN : MicGranted(c, attach)
    \/ \E c \in Conns : MicDenied(c)
    \/ \E g \in Conns : AudioProcess(g, FALSE)
    \/ \E c \in Conns : PromiseResolve(c)
    \/ \E c \in Conns : PromiseReject(c)
    \/ \E c \in Conns : OnOpen(c)
    \/ \E c \in Conns : OnClose(c)
    \/ \E c \in Conns : OnError(c)
    \/ \E c \in Conns : \E m \in SessionMessages : HandleMessage(c, m)

Spec == Init /\ [][Next]_vars

\* the session and the camera: connecting, the frame loop, sending video
\* frames, tearing down
NextCamera ==
    \/ \E threw \in BOOLEAN : Connect(threw, MaxReplays)
    \/ HandleEndSession
    \/ Cleanup
    \/ \E hasId \in BOOLEAN : CameraAttemptFailed(hasId)
    \/ CameraFail
    \/ CameraOk
    \/ FrameTick
    \/ SendVideoFrame
    \/ \E c \in Conns : PromiseResolve(c)
    \/ \E c \in Conns : PromiseReject(c)
    \/ \E c \in Conns : OnOpen(c)
    \/ \E c \in Conns : OnClose(c)
    \/ \E c \in Conns : OnError(c)

SpecCamera == Init /\ [][NextCamera]_vars

\* the transcript aggregator under every message without audio
NextTranscript ==
    \/ Connect(FALSE, MaxReplays)
    \/ HandleEndSession
    \/ Cleanup
    \/ \E c \in Conns : OnOpen(c)
    \/ \E c \in Conns : \E m \in TranscriptMessages : HandleMessage(c, m)

SpecTranscript == Init /\ [][NextTranscript]_vars

\* the camera and the frame loop across two mounts of the component
NextRemount ==
    \/ Connect(FALSE, MaxConnects)
    \/ HandleEndSession
    \/ Cleanup
    \/ \E hasId \in BOOLEAN : CameraAttemptFailed(hasId)
    \/ CameraFail
    \/ CameraOk
    \/ FrameTick
    \/ SendVideoFrame
    \/ \E c \in Conns : PromiseResolve(c)
    \/ \E c \in Conns : OnOpen(c)
    \/ \E c \in Conns : OnClose(c)

SpecRemount == Init /\ [][NextRemount]_vars

\* the playback scheduler under every message without transcription
NextPlayback ==
    \/ Connect(FALSE, MaxReplays)
    \/ HandleEndSession
    \/ Cleanup
    \/ \E c \in Conns : OnOpen(c)
    \/ \E c \in Conns : \E m \in PlaybackMessages : HandleMessage(c, m)
    \/ DecodeDone
    \/ \E u \in 1..MaxUnits : Ended(u)
    \/ Tick

SpecPlayback == Init /\ [][NextPlayback]_vars

\* the browser delivers the 'ended' event of every unit that can still
\* reach its end
SpecPlaybackFair ==
    SpecPlayback /\ \A u \in 1..MaxUnits : WF_vars(Ended(u))

\* barge-in: transcription and playback together, with interruptions that
\* are handled at once or after the decode await
BargeInMessages ==
    { m \in Messages :
        /\ m.inText = <<"a">> /\ m.outText = <<"a">>
        /\ ~(m.hasIn /\ m.hasOut)
        /\ m.audio \in {0, 1} }

NextBargeIn ==
    \/ Connect(FALSE, MaxReplays)
    \/ \E c \in Conns : OnOpen(c)
    \/ \E c \in Conns : \E m \in BargeInMessages : HandleMessage(c, m)
    \/ DecodeDone

SpecBargeIn == Init /\ [][NextBargeIn]_vars

\* one capture stream in front of a session promise that resolves late
NextCapture ==
    \/ Connect(FALSE, MaxReplays)
    \/ HandleEndSession
    \/ Cleanup
    \/ \E c \in Conns : OnOpen(c)
    \/ \E c \in Conns : \E attach \in BOOLEAN : MicGranted(c, attach)
    \/ \E g \in Conns : AudioProcess(g, TRUE)
    \/ \E c \in Conns : PromiseResolve(c)
    \/ \E c \in Conns : PromiseReject(c)
    \/ \E c \in Conns : OnClose(c)

SpecCapture == Init /\ [][NextCapture]_vars

\* the level meter of the component under every sequence of notifications
NextLevel ==
    \/ Connect(FALSE, MaxReplays)
    \/ HandleEndSession
    \/ Cleanup
    \/ \E sample \in LevelSamples : OnAudioLevel(sample)

SpecLevel == Init /\ [][NextLevel]_vars

\* the items of the transcript list and the clock their ids are made from
IdMessages ==
    { m \in TranscriptMessages :
        /\ m.inText = <<"a">> /\ m.outText = <<"a">>
        /\ ~m.interrupted }

NextIds ==
    \/ Connect(FALSE, MaxReplays)
    \/ HandleEndSession
    \/ Cleanup
    \/ \E c \in Conns : OnOpen(c)
    \/ \E c \in Conns : \E m \in IdMessages : HandleMessage(c, m)
    \/ WallTick

SpecIds == Init /\ [][NextIds]_vars

\* barge-in together with messages of unrecognized shape
NextAnomaly ==
    \/ NextBargeIn
    \/ \E c \in Conns : \E shape \in AnomalyShapes : HandleAnomaly(c, shape)

SpecAnomaly == Init /\ [][NextAnomaly]_vars

\* ------------------------------------------------------------------ claims
SendOps == {"sendVideoFrame", "audioProcess"}

\* C1: a turn-complete emits, for each speaker, exactly one item holding
\* every partial text received for that speaker since its accumulator was
\* last cleared, when that text is not blank, and no item when it is blank;
\* the accumulator of an emitted item is empty afterwards.
C1_FlushEmitsReceived ==
    /\ fx.emitted = fx.expected
    /\ \A i \in DOMAIN fx.emitted :
          /\ (fx.emitted[i].speaker = "user" /\ fx.op = "message" => accIn = << >>)
          /\ (fx.emitted[i].speaker = "model" /\ fx.op = "message" => accOut = << >>)

\* C2: without an interruption in between, a unit starts no earlier than
\* the end (start + duration) of the unit started before it; durations are
\* positive, so the start times do not decrease either.
C2_Sequential ==
    (fx.startAt # -1 /\ fx.prevEnd # -1) => fx.startAt >= fx.prevEnd

C2_Witness ==
    /\ fx.startAt # -1
    /\ fx.prevEnd # -1
    /\ fx.behind > 0

\* C3: an interruption leaves the in-flight set empty and the cursor at
\* zero, and the first unit started after it starts no earlier than the
\* output clock stood when the interruption was processed.
C3_InterruptionResets ==
    /\ (fx.op = "interrupt" => sources = {} /\ nextStartTime = 0)
    /\ (fx.startAt # -1 /\ fx.intrAt # -1 => fx.startAt >= fx.intrAt)

\* C4: while the component stays mounted on one connect, no callback of
\* that session and no camera or microphone result moves the status away
\* from error.
C4_ErrorTerminal ==
    [][ ( /\ status = "error"
          /\ ui = "mounted"
          /\ nConn' = nConn
          /\ \/ fx'.op \in {"open", "close", "error"} /\ fx'.sid = nConn
             \/ fx'.op \in {"cameraOk", "cameraFail", "micGranted", "micDenied"} )
        => status' = "error" ]_vars

\* C5: session-opened sets the status to connected, a session error sets it
\* to error, and no send issued after the session reported an error reaches
\* the session.
C5_NoSendAfterError ==
    /\ (ui = "mounted" /\ fx.op = "open" => status = "connected")
    /\ (ui = "mounted" /\ fx.op = "error" => status = "error")
    /\ \A i \in DOMAIN fx.delivered : ~fx.delivered[i].afterErr

\* C6: the second of two disconnects, which finds no session open, tears
\* nothing down and faults nowhere; it only reports disconnected.
C6_DisconnectIdempotent ==
    fx.op = "cleanup" =>
        /\ fx.reported = "disconnected"
        /\ fx.teardown = {}
        /\ fx.faults = {}

\* C7: whenever disconnected is reported, by a remote close or by a
\* disconnect, the audio contexts are released, both accumulators are empty
\* and the cursor is zero.
C7_DisconnectedTornDown ==
    fx.reported = "disconnected" =>
        /\ (ctx = 0 \/ ctx \in ctxClosed)
        /\ accIn = << >>
        /\ accOut = << >>
        /\ nextStartTime = 0

C9_FailureSetsError ==
    /\ (fx.op = "connect" /\ sess[nConn].promise = "threw" => status = "error")
    /\ (ui = "mounted" /\ fx.op = "error" => status = "error")
    /\ (fx.op = "reject" /\ fx.sid = nConn /\ ui = "mounted" =>
            /\ fx.reported = "error"
            /\ status = "error"
            /\ fx.faults = {})

\* C10: a message appends its user text to the user accumulator and its
\* model text to the model accumulator, each whatever else it carries.
C10_AppendPerSpeaker ==
    fx.grew = fx.carried

\* C11: after a turn-complete message has been processed both accumulators
\* are empty, whatever they held before it, whitespace included; the flush
\* and the clear are part of the one step that handles the message.
C11_BothEmptyAfterTurn ==
    fx.turnComplete => accIn = << >> /\ accOut = << >>

\* C12: when an interruption is processed the model text accumulated and
\* not yet flushed is dropped, so every model item emitted later holds only
\* partials received after the interruption; the user accumulator is what
\* the append and the flush of the message made of it, the interruption
\* itself changes nothing in it.
C12_InterruptionDiscards ==
    /\ [](SelectSeq(fx.emitted, LAMBDA t : t.speaker = "model")
            = SelectSeq(fx.expected, LAMBDA t : t.speaker = "model"))
    /\ [][ fx'.op = "interrupt" =>
             /\ accOut' = << >>
             /\ accIn' = (IF \E i \in DOMAIN fx'.emitted : fx'.emitted[i].speaker = "user"
                          THEN << >> ELSE accIn \o fx'.grew[1])
         ]_vars

C12_Witness ==
    /\ fx.op = "interrupt"
    /\ fx.discarded # << >>
    /\ fx.startAt # -1
    /\ accIn # << >>
    /\ accOut = << >>

\* C13: the start time passed to source.start is never less than the output
\* clock at the moment of the call, whether or not the clock advanced while
\* the buffer was being decoded.
C13_NeverInThePast ==
    fx.startAt # -1 => fx.startAt >= outClock

\* C14: once the session has been closed by the remote end or by a
\* disconnect, no capture pipeline is left running on an open context, and
\* no captured chunk is handed to the transport.
C14_CaptureStopsWithSession ==
    /\ \A g \in procs \ ctxClosed : ~sess[g].ended /\ ~sess[g].closeCalled
    /\ (fx.op = "audioProcess" =>
           /\ sessionPromise # 0
           /\ ~sess[sessionPromise].ended)

\* C15: a disconnect leaves the in-flight set empty, and no unit is started
\* while the service holds no session or a closed output context, so audio
\* that arrives or finishes decoding after the disconnect schedules nothing.
C15_DisconnectHaltsPlayback ==
    /\ (fx.op \in {"disconnect", "cleanup"} => sources = {})
    /\ (fx.startAt # -1 => sessionPromise # 0 /\ ctx \notin ctxClosed)

\* C16: at no moment are two sessions open, not closed by the service, and
\* still delivering their callbacks to it.
C16_OneLiveSession ==
    Cardinality({ c \in Conns : Attached(c) /\ sess[c].opened /\ ~sess[c].closeCalled }) <= 1

\* C17: a session-opened event finds the status at connecting, moves it to
\* connected and calls for the microphone; the status becomes connected
\* from connecting only; nothing but a session-opened event calls for the
\* microphone, and no chunk is sent on a session that has not opened.
C17_OpenedStartsCapture ==
    [][ /\ (fx'.op = "open" /\ ui = "mounted" =>
               /\ status = "connecting"
               /\ status' = "connected")
        /\ (status' = "connected" /\ status # "connected" /\ ui = "mounted" =>
               status = "connecting")
        /\ (micWait' \ micWait # {} => fx'.op = "open")
        /\ (fx'.op = "audioProcess" /\ sessionPromise # 0 =>
               sess[sessionPromise].opened)
      ]_vars

\* C18: when the microphone request made for a session fails, the status
\* becomes error, no pipeline is attached and no new request is made by
\* that step, and no chunk is sent on that session afterwards.
C18_MicFailureFatal ==
    /\ (fx.op = "micDenied" /\ ui = "mounted" => status = "error")
    /\ (fx.op = "micDenied" => fx.sid \notin micWait)
    /\ (fx.op = "audioProcess" /\ sessionPromise # 0 =>
           ~sess[sessionPromise].micDenied)

\* C19: a unit that completes removes itself from the in-flight set and
\* resets the audio level, and, completion events being delivered, every
\* unit in the in-flight set is eventually out of it.
C19_UnitsLeave ==
    /\ [][ fx'.op = "ended" => fx'.levelReset /\ Cardinality(sources') < Cardinality(sources) ]_vars
    /\ \A u \in 1..MaxUnits : InFlight(u) ~> ~InFlight(u)

\* C20: the visible state (status, cameraError, displayed message) right
\* after a microphone or camera failure differs from the visible state that
\* a remote session error alone produces.
C20_DeviceFailureDistinct ==
    (fx.op \in {"micDenied", "cameraFail"} /\ ui = "mounted") =>
        View(status, cameraError) # View("error", FALSE)

\* C21: a block of samples on the grid k/32768, -32768 <= k <= 32768, comes
\* back from encoding followed by decoding as the same samples in the same
\* order, the sample 1.0 as the largest value the encoding holds and not as
\* a negative one.
C21_PcmRoundTrip ==
    LET Clamped(k) == IF k > Scale - 1 THEN Scale - 1 ELSE IF k < -Scale THEN -Scale ELSE k
    IN  fx.op = "decodeAudioData" =>
            /\ Len(fx.decoded) = Len(fx.samples)
            /\ \A i \in DOMAIN fx.samples : fx.decoded[i] = Clamped(fx.samples[i])

\* C22: a message without serverContent, or whose serverContent holds none
\* of the recognized fields, a modelTurn without parts included, is handled
\* without a fault, emits nothing, schedules nothing and leaves the
\* accumulators, the cursor, the in-flight set and the status as they were.
C22_AnomalyIgnored ==
    [][ fx'.op = "anomaly" =>
          /\ fx'.faults = {}
          /\ fx'.emitted = << >>
          /\ fx'.startAt = -1
          /\ UNCHANGED << accIn, accOut, nextStartTime, sources, pending, nUnits, status >>
      ]_vars

\* C23: every item emitted to the transcript list has an id that no item
\* already in the list has, and the items of one message differ in id; so
\* also for two items of one speaker emitted at the same clock value.
C23_UniqueIds ==
    [][ ui # "unmounted" =>
          /\ \A i \in DOMAIN fx'.emitted : fx'.emitted[i].id \notin ids
          /\ \A i, j \in DOMAIN fx'.emitted :
                i # j => fx'.emitted[i].id # fx'.emitted[j].id
      ]_vars

\* C24: the audio chunks a session receives arrive in the order in which
\* they were captured, those captured while the session promise was still
\* pending included: each chunk handed to a session was captured after
\* every chunk the session received before it.
C24_CaptureOrderKept ==
    [][ \A i \in DOMAIN fx'.delivered :
          fx'.delivered[i].kind = "audio" =>
            /\ \A c \in Conns : sess'[c].lastSeq # sess[c].lastSeq =>
                                   fx'.delivered[i].seq > sess[c].lastSeq
            /\ \A j \in DOMAIN fx'.delivered :
                  i < j => fx'.delivered[i].seq < fx'.delivered[j].seq
      ]_vars

C24_Witness ==
    /\ fx.op = "resolve"
    /\ Len(fx.delivered) = 2
    /\ \A i \in 1..2 :
          /\ fx.delivered[i].kind = "audio"
          /\ fx.delivered[i].at = "pending"
          /\ fx.delivered[i].seq = i
    /\ sess[fx.sid].lastSeq = 2

\* C25: the level starts at 0 on mount, every notification replaces it by
\* old*0.8 + sample*0.2, and with samples within [0,1] it stays within
\* [0,1].
C25_LevelWithinUnit ==
    /\ [](/\ 0 <= audioLevel.num
          /\ audioLevel.num <= Pow10(audioLevel.n + 1))
    /\ [][ /\ (fx'.op = "connect" => audioLevel'.num = 0)
           /\ (fx'.op = "audioLevel" =>
                 \E sample \in LevelSamples :
                    \* new * 10 = old * 8 + sample * 2, over 10^(n+2)
                    /\ audioLevel'.n = audioLevel.n + 1
                    /\ audioLevel'.num * 10 =
                         (audioLevel.num * 10) * 8 + (sample * Pow10(audioLevel.n + 1)) * 2)
         ]_vars

C25_Witness ==
    /\ fx.op = "audioLevel"
    /\ audioLevel.n = MaxUpdates
    /\ audioLevel.num * 2 > Pow10(audioLevel.n + 1)

\* C26: a callback of a session that a later connect has superseded changes
\* neither the status nor the accumulators, requests no microphone, and no
\* pipeline requested by such a session is attached to the contexts of the
\* later connect.
C26_SupersededIgnored ==
    [][ /\ (/\ fx'.op \in {"open", "close", "error", "message", "interrupt"}
            /\ fx'.sid # 0
            /\ fx'.sid < nConn)
           => /\ status' = status
              /\ micWait' = micWait
              /\ accIn' = accIn
              /\ accOut' = accOut
        /\ (fx'.op = "micGranted" /\ fx'.sid < nConn => procs' = procs)
      ]_vars

\* C27: a camera error is recorded, and the status set to error, only by
\* the failure of the last applicable attempt; a camera that was acquired
\* has no error recorded; and no video frame is sent while a camera error
\* is recorded, whatever the status becomes.
C27_CameraFailure ==
    /\ [](/\ (camera = "ok" => ~cameraError)
          /\ (fx.op = "sendVideoFrame" => ~cameraError))
    /\ [][ /\ (cameraError' /\ ~cameraError =>
                 camera = "any" /\ fx'.op = "cameraFail")
           /\ (fx'.op = "cameraFail" /\ ui = "mounted" => status' = "error")
           /\ (fx'.op = "cameraRetry" => status' = status /\ ~cameraError')
         ]_vars

\* C28: the frame loop ticks only while the status is connected and no
\* camera error is recorded, and sendVideoFrame is called for a frame only
\* in such a state.
C28_FramesOnlyWhileConnected ==
    /\ (fx.op = "frameTick" => status = "connected" /\ ~cameraError)
    /\ (fx.op = "sendVideoFrame" => status = "connected" /\ ~cameraError)

====
